---- MODULE Spec2Model ----
(***************************************************************************)
(* JDM Cash Now (src/app.py): loans, payments and the automatic closure   *)
(* of a loan, as a state machine over the rows of the PostgreSQL tables.  *)
(*                                                                         *)
(* Money is an integer number of ten-thousandths of the currency unit: a  *)
(* form value (a Python float) may carry any number of them, a            *)
(* NUMERIC(12,2) column only whole cents (multiples of Cent).  A rate is  *)
(* an integer number of hundredths of a percent, the resolution of the    *)
(* NUMERIC(5,2) column, which therefore stores a rate as it is given.     *)
(* Python's binary floating point is modelled as exact decimal            *)
(* arithmetic wherever the doubles decide as the decimals do, which is    *)
(* so for the sums, products and comparisons of every loan and payment of *)
(* the input sets; the floor division of loan_detail, which does not, is  *)
(* modelled on the doubles (PaidPeriods).  NaN, infinities and values     *)
(* beyond the precision of the columns are outside the input sets.        *)
(***************************************************************************)
EXTENDS Integers, Sequences, FiniteSets, TLC

VARIABLES
    users,          \* table users:    id -> role
    clients,        \* table clients:  id -> [created_by]
    loans,          \* table loans:    id -> row (committed)
    loans_seq,      \* last value of the SERIAL loans.id
    payments,       \* table payments: id -> row (committed)
    payments_seq,   \* last value of the SERIAL payments.id
    flash,          \* message flashed by the most recent request
    view,           \* loan page rendered by the most recent request, if any
    tx              \* the payment requests in flight: request -> transaction

vars == <<users, clients, loans, loans_seq, payments, payments_seq, flash, view, tx>>

db == <<users, clients, loans, loans_seq, payments, payments_seq>>

(***************************************************************************)
(* Bounds of the model.                                                    *)
(***************************************************************************)
MaxLoans == 1
MaxPayments == 2
\* Payments started, all in all, by the requests that run two at a time.
MaxConcPayments == 3

(***************************************************************************)
(* Units and column types.                                                 *)
(***************************************************************************)
Cent == 100
Percent == 100

\* A value that may be absent (Python None, SQL NULL): <<>> or <<v>>.
None == <<>>
Some(v) == <<v>>

\* SQL NULL in a column that references an id (ids are SERIAL, from 1).
NullId == 0

\* Python truthiness of an optional number: None and 0 are false.
Falsy(o) == o = None \/ o[1] = 0

\* Python "o or 0".
OrZero(o) == IF Falsy(o) THEN 0 ELSE o[1]

\* Rounding of a numeric to the scale of its column: half away from zero.
RoundTo(x, q) ==
    IF x >= 0 THEN ((x + (q \div 2)) \div q) * q
              ELSE -((((-x) + (q \div 2)) \div q) * q)

Numeric12_2(x) == RoundTo(x, Cent)

(***************************************************************************)
(* Messages and values of the program.                                     *)
(***************************************************************************)
PayTypes == {"capital", "interes", "cuota"}

MsgNone == ""
MsgLoanCreated == "Prestamo creado correctamente."
MsgLoanIncomplete == "Complete todos los campos obligatorios."
MsgLoanNotFound == "Prestamo no encontrado."
MsgNoPermission == "No tienes permiso para este prestamo."
MsgNoPermissionView == "No tienes permiso para ver este prestamo."
MsgPaymentInvalid == "Datos de pago invalidos."
MsgPaymentDone == "Pago registrado correctamente."
MsgRoleDenied == "No tiene permiso para acceder aqui."
MsgNoTarget == "Seleccione un cobrador destino."
MsgBadTarget == "Cobrador destino invalido."
MsgMoved == "Cliente y sus prestamos fueron movidos al nuevo cobrador."
MsgSameCollector == "No puedes reasignar al mismo cobrador."
MsgReassigned == "Clientes y prestamos reasignados exitosamente."
MsgServerError == "500 Internal Server Error"
MsgBadPin == "PIN incorrecto."
MsgCannotDeleteAdmin == "No se puede borrar un administrador."
MsgUserDeleted == "Usuario eliminado."
MsgClientDeleted == "Cliente eliminado."

\* No loan page was rendered.
NoView == <<>>

(***************************************************************************)
(* current_user / role checks.                                             *)
(***************************************************************************)
Role(u) == users[u]

\* IsCobrador that takes the supervisors for the collectors.
IsCobradorSupervisor(u) == Role(u) = "supervisor"

IsCobrador(u) == Role(u) = "cobrador"

\* t with the row `id` added.
Insert(t, id, row) == [i \in DOMAIN t \cup {id} |-> IF i = id THEN row ELSE t[i]]

(***************************************************************************)
(* new_loan                                                                *)
(***************************************************************************)
LoanIncomplete(client_id, amount, freq, start_str) ==
    Falsy(client_id) \/ Falsy(amount) \/ freq = "" \/ start_str = None

\* LoanRow with nothing left to pay.
LoanRowNoRemaining(u, client_id, amount, rate, freq, start_str, term_count) ==
    [ client_id           |-> client_id[1],
      amount              |-> Numeric12_2(amount[1]),
      rate                |-> OrZero(rate),
      frequency           |-> freq,
      start_date          |-> start_str[1],
      created_by          |-> u,
      remaining           |-> 0,
      total_interest_paid |-> 0,
      status              |-> "activo",
      term_count          |-> term_count ]

LoanRow(u, client_id, amount, rate, freq, start_str, term_count) ==
    [ client_id           |-> client_id[1],
      amount              |-> Numeric12_2(amount[1]),
      rate                |-> OrZero(rate),
      frequency           |-> freq,
      start_date          |-> start_str[1],
      created_by          |-> u,
      remaining           |-> Numeric12_2(amount[1]),
      total_interest_paid |-> 0,
      status              |-> "activo",
      term_count          |-> term_count ]

NewLoan(u, client_id, amount, rate, freq, start_str, term_count) ==
    /\ IF u \notin DOMAIN users
       THEN \* current_user() is None: user["role"] raises
            /\ flash' = MsgServerError
            /\ UNCHANGED db
       ELSE IF LoanIncomplete(client_id, amount, freq, start_str)
       THEN /\ flash' = MsgLoanIncomplete
            /\ UNCHANGED db
       ELSE IF client_id[1] \notin DOMAIN clients
       THEN \* foreign key violation: the request fails, nothing is committed
            /\ flash' = MsgServerError
            /\ UNCHANGED db
       ELSE /\ loans_seq < MaxLoans
            /\ loans_seq' = loans_seq + 1
            /\ loans' = Insert(loans, loans_seq + 1,
                               LoanRow(u, client_id, amount, rate, freq, start_str, term_count))
            /\ flash' = MsgLoanCreated
            /\ UNCHANGED <<users, clients, payments, payments_seq>>
    /\ view' = NoView
    /\ UNCHANGED tx

(***************************************************************************)
(* new_payment: the parts of the handler.                                  *)
(***************************************************************************)
\* PaymentInvalid without the test of the kind.
PaymentInvalidNoKind(amount, pay_type) ==
    Falsy(amount) \/ amount[1] <= 0

PaymentInvalid(amount, pay_type) ==
    Falsy(amount) \/ amount[1] <= 0 \/ pay_type \notin PayTypes

\* The columns note, date and created_by of payments are written and never
\* read by a decision of the program; the model leaves them out.
PaymentRow(loan_id, amount, pay_type) ==
    [ loan_id |-> loan_id,
      amount  |-> Numeric12_2(amount),
      type    |-> pay_type ]

\* new_remaining of a capital payment (a float, not yet rounded by the column).
NewRemaining(current_remaining, amount) ==
    IF current_remaining - amount < 0 THEN 0 ELSE current_remaining - amount

\* NewInterestPaid that stores the payment instead of adding it.
NewInterestPaidOverwrite(total_interest_paid, amount) == amount

NewInterestPaid(total_interest_paid, amount) == total_interest_paid + amount

\* TotalToPay that takes the term for a number of days.
TotalToPayByFrequency(loan) ==
    LET days == OrZero(loan.term_count)
        step == IF loan.frequency = "diario" THEN 1 ELSE 7
    IN  loan.amount + ((loan.amount * loan.rate) \div (100 * Percent)) * (days \div step)

\* total_to_pay = amount + (amount * rate / 100) * term_count
TotalToPay(loan) ==
    LET amount_capital == loan.amount
        rate           == loan.rate
        term_count_int == OrZero(loan.term_count)
        per_interest   == (amount_capital * rate) \div (100 * Percent)
        total_interest == per_interest * term_count_int
    IN  amount_capital + total_interest

RECURSIVE SumAmount(_, _)
SumAmount(rows, ids) ==
    IF ids = {} THEN 0
    ELSE LET i == CHOOSE j \in ids : TRUE
         IN  rows[i].amount + SumAmount(rows, ids \ {i})

\* TotalPagado that counts the installments only.
TotalPagadoCuotas(rows, loan_id) ==
    SumAmount(rows, {i \in DOMAIN rows : rows[i].loan_id = loan_id /\ rows[i].type = "cuota"})

\* SELECT COALESCE(SUM(amount),0) FROM payments WHERE loan_id = %s
TotalPagado(rows, loan_id) ==
    SumAmount(rows, {i \in DOMAIN rows : rows[i].loan_id = loan_id})

\* NewStatus that takes "paid in full" for "paid the total, give or take a
\* cent" and writes the status both ways.
NewStatusFlapping(status, total_to_pay, total_pagado, current_remaining) ==
    IF total_to_pay > 0
    THEN IF total_pagado >= total_to_pay - Cent /\ total_pagado <= total_to_pay + Cent
         THEN "cerrado" ELSE "activo"
    ELSE IF current_remaining <= 0 THEN "cerrado" ELSE "activo"

\* NewStatus that closes a loan paid up to its total, not one paid beyond it.
NewStatusUpToTotal(status, total_to_pay, total_pagado, current_remaining) ==
    LET new_status == IF status = "" THEN "activo" ELSE status
    IN  IF total_to_pay > 0
        THEN IF total_pagado >= total_to_pay - Cent /\ total_pagado <= total_to_pay
             THEN "cerrado" ELSE new_status
        ELSE IF current_remaining <= 0 THEN "cerrado" ELSE new_status

\* NewStatus with a margin of two cents.
NewStatusTwoCents(status, total_to_pay, total_pagado, current_remaining) ==
    LET new_status == IF status = "" THEN "activo" ELSE status
    IN  IF total_to_pay > 0
        THEN IF total_pagado >= total_to_pay - 2 * Cent THEN "cerrado" ELSE new_status
        ELSE IF current_remaining <= 0 THEN "cerrado" ELSE new_status

\* NewStatus without the margin of a cent.
NewStatusNoMargin(status, total_to_pay, total_pagado, current_remaining) ==
    LET new_status == IF status = "" THEN "activo" ELSE status
    IN  IF total_to_pay > 0
        THEN IF total_pagado >= total_to_pay THEN "cerrado" ELSE new_status
        ELSE IF current_remaining <= 0 THEN "cerrado" ELSE new_status

NewStatus(status, total_to_pay, total_pagado, current_remaining) ==
    LET new_status == IF status = "" THEN "activo" ELSE status
    IN  IF total_to_pay > 0
        THEN IF total_pagado >= total_to_pay - Cent THEN "cerrado" ELSE new_status
        ELSE IF current_remaining <= 0 THEN "cerrado" ELSE new_status

\* ApplyPayment that leaves a closed loan as it is.
ApplyPaymentActiveOnly(loan, amount, pay_type) ==
    IF pay_type = "capital" /\ loan.status # "cerrado"
    THEN [ row |-> [loan EXCEPT !.remaining =
                        Numeric12_2(NewRemaining(loan.remaining, amount))],
           current_remaining |-> NewRemaining(loan.remaining, amount) ]
    ELSE IF pay_type = "interes" /\ loan.status # "cerrado"
    THEN [ row |-> [loan EXCEPT !.total_interest_paid =
                        Numeric12_2(NewInterestPaid(loan.total_interest_paid, amount))],
           current_remaining |-> loan.remaining ]
    ELSE [ row |-> loan, current_remaining |-> loan.remaining ]

\* The loan row and the local current_remaining after the UPDATE of
\* remaining / total_interest_paid that the kind of the payment asks for.
ApplyPayment(loan, amount, pay_type) ==
    IF pay_type = "capital"
    THEN LET new_remaining == NewRemaining(loan.remaining, amount)
         IN  [ row |-> [loan EXCEPT !.remaining = Numeric12_2(new_remaining)],
               current_remaining |-> new_remaining ]
    ELSE IF pay_type = "interes"
    THEN [ row |-> [loan EXCEPT !.total_interest_paid =
                        Numeric12_2(NewInterestPaid(loan.total_interest_paid, amount))],
           current_remaining |-> loan.remaining ]
    ELSE [ row |-> loan, current_remaining |-> loan.remaining ]

\* The loan row a valid payment leaves, given the payments of the loan
\* summed with the row of this one.
AfterPayment(loan, total_pagado, amount, pay_type) ==
    LET applied == ApplyPayment(loan, amount, pay_type)
    IN  [applied.row EXCEPT !.status =
            NewStatus(loan.status, TotalToPay(loan), total_pagado, applied.current_remaining)]

NewPayment(u, loan_id, amount, pay_type) ==
    /\ IF loan_id \notin DOMAIN loans
       THEN /\ flash' = MsgLoanNotFound
            /\ UNCHANGED db
       ELSE IF u \notin DOMAIN users
       THEN \* current_user() is None: user["role"] raises
            /\ flash' = MsgServerError
            /\ UNCHANGED db
       ELSE IF IsCobrador(u) /\ loans[loan_id].created_by # u
       THEN /\ flash' = MsgNoPermission
            /\ UNCHANGED db
       ELSE IF PaymentInvalid(amount, pay_type)
       THEN /\ flash' = MsgPaymentInvalid
            /\ UNCHANGED db
       ELSE LET loan         == loans[loan_id]
                id           == payments_seq + 1
                rows         == Insert(payments, id, PaymentRow(loan_id, amount[1], pay_type))
                applied      == ApplyPayment(loan, amount[1], pay_type)
                total_pagado == TotalPagado(rows, loan_id)
                new_status   == NewStatus(loan.status, TotalToPay(loan), total_pagado,
                                          applied.current_remaining)
            IN  /\ payments_seq < MaxPayments
                /\ payments_seq' = id
                /\ payments' = rows
                /\ loans' = [loans EXCEPT ![loan_id] =
                                [applied.row EXCEPT !.status = new_status]]
                /\ flash' = MsgPaymentDone
                /\ UNCHANGED <<users, clients, loans_seq>>
    /\ view' = NoView
    /\ UNCHANGED tx

(***************************************************************************)
(* loan_detail: reads the loan and its payments and renders the page.     *)
(* Dates are day numbers.  The quotients of floats are taken in exact     *)
(* arithmetic; installment is kept to the resolution of the model, to     *)
(* the nearest.                                                            *)
(***************************************************************************)
\* term_count_int = int(loan.get("term_count") or 0)
TermCountInt(loan) == OrZero(loan.term_count)

\* per_interest = amount * rate / 100.0
PerInterest(loan) == (loan.amount * loan.rate) \div (100 * Percent)

\* ViewTotalToPay that leaves the term out.
ViewTotalToPayNoTerm(loan) == loan.amount + PerInterest(loan)

\* total_to_pay = amount + per_interest * term_count_int, as loan_detail has it
ViewTotalToPay(loan) == loan.amount + PerInterest(loan) * TermCountInt(loan)

\* Installment without the guard of the division.
InstallmentNoGuard(total_to_pay, term_count_int) ==
    RoundTo(2 * total_to_pay, 2 * (IF term_count_int > 0 THEN term_count_int ELSE 1)) \div
        (2 * (IF term_count_int > 0 THEN term_count_int ELSE 1))

\* installment = total_to_pay / term_count_int if term_count_int > 0 else 0.0
Installment(total_to_pay, term_count_int) ==
    IF term_count_int > 0
    THEN RoundTo(2 * total_to_pay, 2 * term_count_int) \div (2 * term_count_int)
    ELSE 0

\* cuotas_pagadas: total_pagado // installment, at most term_count_int
CuotasPagadas(total_to_pay, total_pagado, term_count_int) ==
    LET cuotas_pagadas == IF term_count_int > 0 /\ total_to_pay > 0
                          THEN (total_pagado * term_count_int) \div total_to_pay
                          ELSE 0
    IN  IF cuotas_pagadas > term_count_int THEN term_count_int ELSE cuotas_pagadas

\* cuotas_resumen: "paid/term", or "N/A" (None) for a loan without a term
CuotasResumen(total_to_pay, total_pagado, term_count_int) ==
    IF term_count_int > 0
    THEN Some(<<CuotasPagadas(total_to_pay, total_pagado, term_count_int), term_count_int>>)
    ELSE None

StepDays(freq) ==
    IF freq = "diario" THEN 1
    ELSE IF freq = "semanal" THEN 7
    ELSE IF freq = "quincenal" THEN 14
    ELSE IF freq = "mensual" THEN 30
    ELSE 7

ExpectedPeriods(start_date, today, freq, term_count_int) ==
    LET elapsed_days     == IF today - start_date > 0 THEN today - start_date ELSE 0
        expected_periods == elapsed_days \div StepDays(freq)
    IN  IF term_count_int # 0 /\ term_count_int < expected_periods
        THEN term_count_int ELSE expected_periods

\* float(x) for a decimal x of the columns: (d - x) / x in units of 10^-19,
\* d the IEEE-754 double nearest to x.  The multiples of 0.5 are doubles;
\* the other values are those per_interest_tmp and paid_interest take.
DoubleRelErr(x) ==
    CASE x % (50 * Cent) = 0 -> 0
      [] x = 50              -> 208      \* 0.005
      [] x = Cent            -> 208      \* 0.01
      [] x = 2 * Cent        -> 208      \* 0.02
      [] x = 3 * Cent        -> -370     \* 0.03
      [] x = 10 * Cent       -> 555      \* 0.10
      [] x = 101 * Cent      -> 88       \* 1.01
      [] x = 102 * Cent      -> 174      \* 1.02
      [] x = 201 * Cent      -> -1061    \* 2.01

\* paid_periods = int(paid_interest // per_interest_tmp) if per_interest_tmp > 0 else 0
\* on doubles: where the decimals divide without a rest, into k, the
\* quotient of the doubles is below k when paid_interest is represented with
\* the smaller relative error, and its floor is then k - 1 (0.5 // 0.1 is 4.0).
PaidPeriods(paid_interest, per_interest_tmp) ==
    IF per_interest_tmp > 0
    THEN IF /\ paid_interest > 0
            /\ paid_interest % per_interest_tmp = 0
            /\ DoubleRelErr(paid_interest) < DoubleRelErr(per_interest_tmp)
         THEN (paid_interest \div per_interest_tmp) - 1
         ELSE paid_interest \div per_interest_tmp
    ELSE 0

\* Overdue that estimates nothing for a closed loan.
OverdueActiveOnly(loan, today) ==
    IF loan.rate > 0 /\ loan.status # "cerrado"
    THEN LET expected_periods == ExpectedPeriods(loan.start_date, today, loan.frequency,
                                                 TermCountInt(loan))
             per_interest_tmp == PerInterest(loan)
             paid_interest    == loan.total_interest_paid
             paid_periods     == PaidPeriods(paid_interest, per_interest_tmp)
             overdue_periods  == IF expected_periods - paid_periods > 0
                                 THEN expected_periods - paid_periods ELSE 0
             interest_due     == per_interest_tmp * expected_periods
             interest_pending == IF interest_due - paid_interest > 0
                                 THEN interest_due - paid_interest ELSE 0
         IN  Some([ expected_periods |-> expected_periods,
                    paid_periods     |-> paid_periods,
                    overdue_periods  |-> overdue_periods,
                    interest_pending |-> interest_pending,
                    warning          |-> overdue_periods > 0 ])
    ELSE None

\* The estimate of the arrears; None when it is not computed (rate <= 0).
Overdue(loan, today) ==
    IF loan.rate > 0
    THEN LET expected_periods == ExpectedPeriods(loan.start_date, today, loan.frequency,
                                                 TermCountInt(loan))
             per_interest_tmp == PerInterest(loan)
             paid_interest    == loan.total_interest_paid
             paid_periods     == PaidPeriods(paid_interest, per_interest_tmp)
             overdue_periods  == IF expected_periods - paid_periods > 0
                                 THEN expected_periods - paid_periods ELSE 0
             interest_due     == per_interest_tmp * expected_periods
             interest_pending == IF interest_due - paid_interest > 0
                                 THEN interest_due - paid_interest ELSE 0
         IN  Some([ expected_periods |-> expected_periods,
                    paid_periods     |-> paid_periods,
                    overdue_periods  |-> overdue_periods,
                    interest_pending |-> interest_pending,
                    warning          |-> overdue_periods > 0 ])
    ELSE None

\* The values the page of the loan shows; client_id stands for the name
\* and the phone of the client, which the page takes from the clients row
\* joined to the loan.
LoanView(loan_id, loan, rows, today) ==
    LET term_count_int == TermCountInt(loan)
        total_to_pay   == ViewTotalToPay(loan)
        total_pagado   == SumAmount(rows, {i \in DOMAIN rows : rows[i].loan_id = loan_id})
    IN  [ loan_id        |-> loan_id,
          client_id      |-> loan.client_id,
          today          |-> today,
          per_interest   |-> PerInterest(loan),
          total_interest |-> PerInterest(loan) * term_count_int,
          total_to_pay   |-> total_to_pay,
          installment    |-> Installment(total_to_pay, term_count_int),
          cuotas_resumen |-> CuotasResumen(total_to_pay, total_pagado, term_count_int),
          restante_total |-> IF total_to_pay - total_pagado > 0
                             THEN total_to_pay - total_pagado ELSE 0,
          overdue        |-> Overdue(loan, today) ]

LoanDetail(u, loan_id, today) ==
    /\ IF loan_id \notin DOMAIN loans
       THEN /\ flash' = MsgLoanNotFound
            /\ view' = NoView
       ELSE IF u \notin DOMAIN users
       THEN \* current_user() is None: user["role"] raises
            /\ flash' = MsgServerError
            /\ view' = NoView
       ELSE IF IsCobrador(u) /\ loans[loan_id].created_by # u
       THEN /\ flash' = MsgNoPermissionView
            /\ view' = NoView
       ELSE /\ flash' = MsgNone
            /\ view' = Some(LoanView(loan_id, loans[loan_id], payments, today))
    /\ UNCHANGED <<db, tx>>

(***************************************************************************)
(* reassign_single_client, reassign_clients                                *)
(***************************************************************************)
\* ReassignSingleClient that takes any user for a target.
ReassignSingleClientAnyTarget(u, client_id, new_user_id) ==
    /\ IF u \notin DOMAIN users \/ Role(u) \notin {"admin", "supervisor"}
       THEN /\ flash' = MsgRoleDenied
            /\ UNCHANGED db
       ELSE IF Falsy(new_user_id)
       THEN /\ flash' = MsgNoTarget
            /\ UNCHANGED db
       ELSE IF new_user_id[1] \notin DOMAIN users
       THEN /\ flash' = MsgBadTarget
            /\ UNCHANGED db
       ELSE /\ clients' = [c \in DOMAIN clients |->
                              IF c = client_id
                              THEN [clients[c] EXCEPT !.created_by = new_user_id[1]]
                              ELSE clients[c]]
            /\ loans' = [l \in DOMAIN loans |->
                            IF loans[l].client_id = client_id
                            THEN [loans[l] EXCEPT !.created_by = new_user_id[1]]
                            ELSE loans[l]]
            /\ flash' = MsgMoved
            /\ UNCHANGED <<users, loans_seq, payments, payments_seq>>
    /\ view' = NoView
    /\ UNCHANGED tx

ReassignSingleClient(u, client_id, new_user_id) ==
    /\ IF u \notin DOMAIN users \/ Role(u) \notin {"admin", "supervisor"}
       THEN /\ flash' = MsgRoleDenied
            /\ UNCHANGED db
       ELSE IF Falsy(new_user_id)
       THEN /\ flash' = MsgNoTarget
            /\ UNCHANGED db
       ELSE IF ~(new_user_id[1] \in DOMAIN users /\ users[new_user_id[1]] = "cobrador")
       THEN /\ flash' = MsgBadTarget
            /\ UNCHANGED db
       ELSE /\ clients' = [c \in DOMAIN clients |->
                              IF c = client_id
                              THEN [clients[c] EXCEPT !.created_by = new_user_id[1]]
                              ELSE clients[c]]
            /\ loans' = [l \in DOMAIN loans |->
                            IF loans[l].client_id = client_id
                            THEN [loans[l] EXCEPT !.created_by = new_user_id[1]]
                            ELSE loans[l]]
            /\ flash' = MsgMoved
            /\ UNCHANGED <<users, loans_seq, payments, payments_seq>>
    /\ view' = NoView
    /\ UNCHANGED tx

ReassignClients(u, from_id, to_id) ==
    /\ IF u \notin DOMAIN users \/ Role(u) # "admin"
       THEN /\ flash' = MsgRoleDenied
            /\ UNCHANGED db
       ELSE IF from_id = to_id
       THEN /\ flash' = MsgSameCollector
            /\ UNCHANGED db
       ELSE IF /\ to_id \notin DOMAIN users
               /\ \/ \E c \in DOMAIN clients : clients[c].created_by = from_id
                  \/ \E l \in DOMAIN loans : loans[l].created_by = from_id
       THEN \* foreign key violation: the request fails, nothing is committed
            /\ flash' = MsgServerError
            /\ UNCHANGED db
       ELSE /\ clients' = [c \in DOMAIN clients |->
                              IF clients[c].created_by = from_id
                              THEN [clients[c] EXCEPT !.created_by = to_id]
                              ELSE clients[c]]
            /\ loans' = [l \in DOMAIN loans |->
                            IF loans[l].created_by = from_id
                            THEN [loans[l] EXCEPT !.created_by = to_id]
                            ELSE loans[l]]
            /\ flash' = MsgReassigned
            /\ UNCHANGED <<users, loans_seq, payments, payments_seq>>
    /\ view' = NoView
    /\ UNCHANGED tx

(***************************************************************************)
(* delete_user, delete_client.  The foreign keys of init_db do the rest:  *)
(* created_by of clients and loans is SET NULL with the user (as is the   *)
(* created_by of payments, a column the model leaves out); the loans of a *)
(* client and the payments of these loans are deleted with the client     *)
(* (ON DELETE CASCADE).                                                    *)
(***************************************************************************)
ADMIN_PIN == "5555"

\* t without the rows whose keys are in gone.
DeleteWhere(t, gone) == [i \in DOMAIN t \ gone |-> t[i]]

DeleteUser(u, user_id, pin) ==
    /\ IF u \notin DOMAIN users \/ Role(u) # "admin"
       THEN /\ flash' = MsgRoleDenied
            /\ UNCHANGED db
       ELSE IF pin # ADMIN_PIN
       THEN /\ flash' = MsgBadPin
            /\ UNCHANGED db
       ELSE IF user_id \notin DOMAIN users \/ users[user_id] = "admin"
       THEN /\ flash' = MsgCannotDeleteAdmin
            /\ UNCHANGED db
       ELSE /\ users' = DeleteWhere(users, {user_id})
            /\ clients' = [c \in DOMAIN clients |->
                              IF clients[c].created_by = user_id
                              THEN [clients[c] EXCEPT !.created_by = NullId]
                              ELSE clients[c]]
            /\ loans' = [l \in DOMAIN loans |->
                            IF loans[l].created_by = user_id
                            THEN [loans[l] EXCEPT !.created_by = NullId]
                            ELSE loans[l]]
            /\ flash' = MsgUserDeleted
            /\ UNCHANGED <<loans_seq, payments, payments_seq>>
    /\ view' = NoView
    /\ UNCHANGED tx

DeleteClient(u, client_id, pin) ==
    /\ IF u \notin DOMAIN users \/ Role(u) # "admin"
       THEN /\ flash' = MsgRoleDenied
            /\ UNCHANGED db
       ELSE IF pin # ADMIN_PIN
       THEN /\ flash' = MsgBadPin
            /\ UNCHANGED db
       ELSE /\ clients' = DeleteWhere(clients, {client_id})
            /\ loans' = DeleteWhere(loans, {l \in DOMAIN loans : loans[l].client_id = client_id})
            /\ payments' = DeleteWhere(payments,
                               {i \in DOMAIN payments :
                                   /\ payments[i].loan_id \in DOMAIN loans
                                   /\ loans[payments[i].loan_id].client_id = client_id})
            /\ flash' = MsgClientDeleted
            /\ UNCHANGED <<users, loans_seq, payments_seq>>
    /\ view' = NoView
    /\ UNCHANGED tx

(***************************************************************************)
(* The requests of the serial specification: who is logged in and what    *)
(* the forms carry.                                                        *)
(***************************************************************************)
Sessions == {1, 2}

\* 1.00 of the currency.
One == 100 * Cent

LoanAmountInputs == {Some(-One), Some(One)}
RateInputs == {None, Some(Percent \div 2), Some(2 * Percent), Some(-100 * Percent)}
TermInputs == {None, Some(1)}

LoanForm(client_id, amount, rate, freq, start_str, term_count) ==
    [ client_id |-> client_id, amount |-> amount, rate |-> rate,
      frequency |-> freq, start_date |-> start_str, term_count |-> term_count ]

ValidLoanForms ==
    { LoanForm(Some(1), a, r, "semanal", Some(0), t) :
        a \in LoanAmountInputs, r \in RateInputs, t \in TermInputs }

InvalidLoanForms ==
    { LoanForm(None,    Some(One), None, "semanal", Some(0), None),
      LoanForm(Some(1), None,      None, "semanal", Some(0), None),
      LoanForm(Some(1), Some(0),   None, "semanal", Some(0), None),
      LoanForm(Some(1), Some(One), None, "",        Some(0), None),
      LoanForm(Some(1), Some(One), None, "semanal", None,    None),
      LoanForm(Some(9), Some(One), None, "semanal", Some(0), None) }

LoanForms == ValidLoanForms \cup InvalidLoanForms

LoanIdInputs == 1 .. MaxLoans

\* 0.005, 0.996 and 1.00
PayAmountInputs == {Some(Cent \div 2), Some(One - 40), Some(One)}

PayForm(amount, pay_type) == [amount |-> amount, type |-> pay_type]

ValidPayForms == { PayForm(a, k) : a \in PayAmountInputs, k \in PayTypes }

InvalidPayForms ==
    { PayForm(None, "cuota"), PayForm(Some(0), "capital"), PayForm(Some(-One), "interes"),
      PayForm(Some(One), "otro"), PayForm(Some(One), "") }

PayForms == ValidPayForms \cup InvalidPayForms

\* Day of the request, counted from the start date the loan forms carry.
DayInputs == {8}

TargetInputs == {None, Some(1), Some(2), Some(3)}

Collectors == {2, 3}

UserIdInputs == {1, 2}

ClientIdInputs == {1}

PinInputs == {"5555", "0000"}

NoTx == [r \in {} |-> 0]

\* The tables as init_db leaves them (one admin, no other row), after the
\* admin has created two collectors (new_user) and collector 2 has
\* registered a client (new_client).
Init ==
    /\ users = (1 :> "admin") @@ (2 :> "cobrador") @@ (3 :> "cobrador")
    /\ clients = (1 :> [created_by |-> 2])
    /\ loans = [l \in {} |-> 0]
    /\ loans_seq = 0
    /\ payments = [p \in {} |-> 0]
    /\ payments_seq = 0
    /\ flash = MsgNone
    /\ view = NoView
    /\ tx = NoTx

Next ==
    \/ \E u \in Sessions, f \in LoanForms :
          NewLoan(u, f.client_id, f.amount, f.rate, f.frequency, f.start_date, f.term_count)
    \/ \E u \in Sessions, loan_id \in LoanIdInputs, f \in PayForms :
          NewPayment(u, loan_id, f.amount, f.type)
    \/ \E u \in Sessions, loan_id \in LoanIdInputs, today \in DayInputs :
          LoanDetail(u, loan_id, today)
    \/ \E u \in Sessions, client_id \in ClientIdInputs, new_user_id \in TargetInputs :
          ReassignSingleClient(u, client_id, new_user_id)
    \/ \E u \in Sessions, from_id \in Collectors, to_id \in Collectors :
          ReassignClients(u, from_id, to_id)
    \/ \E u \in Sessions, user_id \in UserIdInputs, pin \in PinInputs :
          DeleteUser(u, user_id, pin)
    \/ \E u \in Sessions, client_id \in ClientIdInputs, pin \in PinInputs :
          DeleteClient(u, client_id, pin)

Spec == Init /\ [][Next]_vars

(***************************************************************************)
(* new_payment, statement by statement, for requests that run at the same *)
(* time.  Each request has its own connection (get_conn), hence its own   *)
(* transaction, at PostgreSQL's default isolation READ COMMITTED: a       *)
(* statement sees the committed rows and the request's own writes; an     *)
(* UPDATE of the loan row waits while another transaction holds an        *)
(* uncommitted UPDATE of that row; COMMIT publishes the writes.           *)
(***************************************************************************)
Requests == {1, 2}

IdleTx ==
    [ pc |-> "idle", loan_id |-> 0, amount |-> 0, type |-> "", loan |-> None,
      inserted |-> None, current_remaining |-> 0, new_status |-> "",
      w_remaining |-> None, w_interest |-> None, w_status |-> None ]

\* The request holds the row lock of its loan: it has an uncommitted UPDATE.
HoldsLock(t) == t.w_remaining # None \/ t.w_interest # None \/ t.w_status # None

\* No other request has an uncommitted UPDATE of the loan row of request r.
RowFree(r) ==
    \A o \in DOMAIN tx \ {r} : ~(HoldsLock(tx[o]) /\ tx[o].loan_id = tx[r].loan_id)

\* VisiblePayments without the row the request has inserted itself.
VisiblePaymentsCommitted(r) == payments

\* The payments a statement of request r sees.
VisiblePayments(r) ==
    IF tx[r].inserted = None THEN payments
    ELSE Insert(payments, tx[r].inserted[1].id, tx[r].inserted[1].row)

\* The loan row with the writes of a transaction applied.
WithWrites(row, t) ==
    [row EXCEPT
        !.remaining           = IF t.w_remaining = None THEN @ ELSE t.w_remaining[1],
        !.total_interest_paid = IF t.w_interest = None THEN @ ELSE t.w_interest[1],
        !.status              = IF t.w_status = None THEN @ ELSE t.w_status[1]]

\* SELECT l.* FROM loans ... and the checks before the INSERT.
TxSelectLoan(r, u, loan_id, amount, pay_type) ==
    /\ tx[r].pc \in {"idle", "done", "failed"}
    /\ u \in DOMAIN users
    /\ IF loan_id \notin DOMAIN loans
       THEN /\ flash' = MsgLoanNotFound
            /\ tx' = [tx EXCEPT ![r] = [IdleTx EXCEPT !.pc = "done"]]
       ELSE IF IsCobrador(u) /\ loans[loan_id].created_by # u
       THEN /\ flash' = MsgNoPermission
            /\ tx' = [tx EXCEPT ![r] = [IdleTx EXCEPT !.pc = "done"]]
       ELSE IF PaymentInvalid(amount, pay_type)
       THEN /\ flash' = MsgPaymentInvalid
            /\ tx' = [tx EXCEPT ![r] = [IdleTx EXCEPT !.pc = "done"]]
       ELSE /\ payments_seq + Cardinality({o \in Requests : tx[o].pc = "insert"})
                  < MaxConcPayments
            /\ tx' = [tx EXCEPT ![r] = [IdleTx EXCEPT
                        !.pc = "insert", !.loan_id = loan_id, !.amount = amount[1],
                        !.type = pay_type, !.loan = Some(loans[loan_id])]]
            /\ UNCHANGED flash
    /\ UNCHANGED <<db, view>>

\* INSERT INTO payments
TxInsertPayment(r) ==
    /\ tx[r].pc = "insert"
    /\ payments_seq' = payments_seq + 1
    /\ tx' = [tx EXCEPT ![r].pc = "update",
                        ![r].inserted = Some([id  |-> payments_seq + 1,
                                              row |-> PaymentRow(tx[r].loan_id, tx[r].amount,
                                                                 tx[r].type)])]
    /\ UNCHANGED <<users, clients, loans, loans_seq, payments, flash, view>>

\* UPDATE loans SET remaining / total_interest_paid, from the row read at the start
TxUpdateLoan(r) ==
    /\ tx[r].pc = "update"
    /\ LET t       == tx[r]
           applied == ApplyPayment(t.loan[1], t.amount, t.type)
       IN  /\ t.type \in {"capital", "interes"} => RowFree(r)
           /\ tx' = [tx EXCEPT
                 ![r].pc = "sum",
                 ![r].current_remaining = applied.current_remaining,
                 ![r].w_remaining = IF t.type = "capital"
                                    THEN Some(applied.row.remaining) ELSE None,
                 ![r].w_interest  = IF t.type = "interes"
                                    THEN Some(applied.row.total_interest_paid) ELSE None]
    /\ UNCHANGED <<db, flash, view>>

\* SELECT COALESCE(SUM(amount),0) ... and the choice of new_status
TxSumPayments(r) ==
    /\ tx[r].pc = "sum"
    /\ LET t == tx[r]
           total_pagado == TotalPagado(VisiblePayments(r), t.loan_id)
       IN  tx' = [tx EXCEPT
                 ![r].pc = "status",
                 ![r].new_status = NewStatus(t.loan[1].status, TotalToPay(t.loan[1]),
                                             total_pagado, t.current_remaining)]
    /\ UNCHANGED <<db, flash, view>>

\* UPDATE loans SET status
TxUpdateStatus(r) ==
    /\ tx[r].pc = "status"
    /\ RowFree(r)
    /\ tx' = [tx EXCEPT ![r].pc = "commit", ![r].w_status = Some(tx[r].new_status)]
    /\ UNCHANGED <<db, flash, view>>

\* conn.commit()
TxCommit(r) ==
    /\ tx[r].pc = "commit"
    /\ payments' = VisiblePayments(r)
    /\ loans' = [loans EXCEPT ![tx[r].loan_id] = WithWrites(@, tx[r])]
    /\ tx' = [tx EXCEPT ![r] = [IdleTx EXCEPT !.pc = "done", !.loan_id = tx[r].loan_id,
                                              !.amount = tx[r].amount, !.type = tx[r].type]]
    /\ flash' = MsgPaymentDone
    /\ UNCHANGED <<users, clients, loans_seq, payments_seq, view>>

\* TxCrash that leaves the inserted row behind, as a connection in
\* autocommit mode would.
TxCrashAutocommit(r) ==
    /\ tx[r].pc \in {"insert", "update", "sum", "status", "commit"}
    /\ tx' = [tx EXCEPT ![r] = [IdleTx EXCEPT !.pc = "failed"]]
    /\ flash' = MsgServerError
    /\ payments' = VisiblePayments(r)
    /\ UNCHANGED <<users, clients, loans, loans_seq, payments_seq, view>>

\* The request fails, or its process dies, before conn.commit(): the server
\* rolls the transaction back (the value taken from the sequence is not
\* given back).
TxCrash(r) ==
    /\ tx[r].pc \in {"insert", "update", "sum", "status", "commit"}
    /\ tx' = [tx EXCEPT ![r] = [IdleTx EXCEPT !.pc = "failed"]]
    /\ flash' = MsgServerError
    /\ UNCHANGED <<db, view>>

\* The loans two requests may meet, made by new_loan from a valid form, and
\* the forms the two requests carry: whole cents, so that what the requests
\* do to each other is not mixed with the rounding of the columns.
ConcLoanForms ==
    { LoanForm(Some(1), Some(2 * One), r, "semanal", Some(0), Some(1)) :
        r \in {None, Some(50 * Percent)} }

ConcPayForms ==
    { PayForm(a, k) : a \in {Some(One), Some(2 * One)}, k \in PayTypes }
        \cup { PayForm(Some(0), "capital") }

InitConc ==
    /\ users = (1 :> "admin") @@ (2 :> "cobrador") @@ (3 :> "cobrador")
    /\ clients = (1 :> [created_by |-> 2])
    /\ \E f \in ConcLoanForms :
          loans = (1 :> LoanRow(2, f.client_id, f.amount, f.rate, f.frequency,
                                f.start_date, f.term_count))
    /\ loans_seq = 1
    /\ payments = [p \in {} |-> 0]
    /\ payments_seq = 0
    /\ flash = MsgNone
    /\ view = NoView
    /\ tx = [r \in Requests |-> IdleTx]

NextConc ==
    \/ \E r \in Requests, u \in Sessions, loan_id \in LoanIdInputs, f \in ConcPayForms :
          TxSelectLoan(r, u, loan_id, f.amount, f.type)
    \/ \E r \in Requests : TxInsertPayment(r)
    \/ \E r \in Requests : TxUpdateLoan(r)
    \/ \E r \in Requests : TxSumPayments(r)
    \/ \E r \in Requests : TxUpdateStatus(r)
    \/ \E r \in Requests : TxCommit(r)
    \/ \E r \in Requests : TxCrash(r)

SpecConc == InitConc /\ [][NextConc]_vars

(***************************************************************************)
(* The page of a loan, for loans of every frequency and term, seen on     *)
(* days before and after their start, with payments in between.           *)
(***************************************************************************)
Frequencies == {"diario", "semanal", "quincenal", "mensual"}

\* A principal of 10.00, and one of 0.004, which the column stores as 0.00.
ViewLoanForms ==
    { LoanForm(Some(1), a, r, q, Some(0), t) :
        a \in {Some(10 * One), Some(40)},
        r \in {None, Some(Percent), Some(5 * Percent), Some(10 * Percent)},
        q \in Frequencies,
        t \in {None, Some(0), Some(3), Some(5)} }

ViewDays == {-5, 0, 6, 7, 21, 30}

\* The last of them pays the whole of a loan of 10.00 at 10 % over 3 periods.
ViewPayForms ==
    { PayForm(Some(One), "interes"), PayForm(Some(One \div 2), "interes"),
      PayForm(Some(One), "cuota"), PayForm(Some(One), "capital"),
      PayForm(Some(13 * One), "cuota") }

InitView ==
    /\ users = (1 :> "admin") @@ (2 :> "cobrador") @@ (3 :> "cobrador")
    /\ clients = (1 :> [created_by |-> 2])
    /\ \E f \in ViewLoanForms :
          loans = (1 :> LoanRow(2, f.client_id, f.amount, f.rate, f.frequency,
                                f.start_date, f.term_count))
    /\ loans_seq = 1
    /\ payments = [p \in {} |-> 0]
    /\ payments_seq = 0
    /\ flash = MsgNone
    /\ view = NoView
    /\ tx = NoTx

NextView ==
    \/ \E u \in Sessions, loan_id \in LoanIdInputs, today \in ViewDays :
          LoanDetail(u, loan_id, today)
    \/ \E u \in Sessions, loan_id \in LoanIdInputs, f \in ViewPayForms :
          NewPayment(u, loan_id, f.amount, f.type)

SpecView == InitView /\ [][NextView]_vars

(***************************************************************************)
(* Moving clients: an admin, two collectors with a client each and a      *)
(* supervisor; client 1 has a loan its collector made and one the admin   *)
(* made, client 2 has one.  Payments are recorded and clients are moved.  *)
(***************************************************************************)
MoveSessions == {1, 2, 4}

MoveClientIds == {1, 2, 3}

MoveLoanIds == {1, 2, 3}

\* No target, 0, the admin, the collectors, the supervisor, nobody.
MoveTargets == {None, Some(0), Some(1), Some(2), Some(3), Some(4), Some(9)}

MovePayForms == { PayForm(Some(One), k) : k \in PayTypes }

InitMove ==
    /\ users = (1 :> "admin") @@ (2 :> "cobrador") @@ (3 :> "cobrador") @@ (4 :> "supervisor")
    /\ clients = (1 :> [created_by |-> 2]) @@ (2 :> [created_by |-> 3])
    /\ loans = (1 :> LoanRow(2, Some(1), Some(One), None, "semanal", Some(0), Some(1)))
                @@ (2 :> LoanRow(1, Some(1), Some(One), Some(2 * Percent), "semanal",
                                 Some(0), Some(1)))
                @@ (3 :> LoanRow(3, Some(2), Some(One), None, "semanal", Some(0), Some(1)))
    /\ loans_seq = 3
    /\ payments = [p \in {} |-> 0]
    /\ payments_seq = 0
    /\ flash = MsgNone
    /\ view = NoView
    /\ tx = NoTx

NextMove ==
    \/ \E u \in MoveSessions, loan_id \in MoveLoanIds, f \in MovePayForms :
          NewPayment(u, loan_id, f.amount, f.type)
    \/ \E u \in MoveSessions, client_id \in MoveClientIds, new_user_id \in MoveTargets :
          ReassignSingleClient(u, client_id, new_user_id)

SpecMove == InitMove /\ [][NextMove]_vars

(***************************************************************************)
(* The properties.  They are stated with definitions of their own         *)
(* (Payable, Paid, ...), not with the operators of the handlers.          *)
(***************************************************************************)
Max(a, b) == IF a >= b THEN a ELSE b

Term(loan) == IF loan.term_count = None THEN 0 ELSE loan.term_count[1]

\* total payable = principal + principal * rate/100 * term_count
Payable(loan) ==
    loan.amount + ((loan.amount * loan.rate * Term(loan)) \div (100 * Percent))

RECURSIVE LedgerSum(_, _)
LedgerSum(rows, ids) ==
    IF ids = {} THEN 0
    ELSE LET i == CHOOSE j \in ids : \A k \in ids : j >= k
         IN  LedgerSum(rows, ids \ {i}) + rows[i].amount

\* The rows of loan l whose kind is in kinds, and their sum.
RowsOf(rows, l, kinds) == {i \in DOMAIN rows : rows[i].loan_id = l /\ rows[i].type \in kinds}

Paid(rows, l, kinds) == LedgerSum(rows, RowsOf(rows, l, kinds))

\* A payment form that passes the validation of new_payment.
ValidForm(f) ==
    /\ f.amount # None
    /\ f.amount[1] > 0
    /\ f.type \in {"capital", "interes", "cuota"}

\* The user may act on the loan.
Permitted(u, l) ==
    /\ u \in DOMAIN users
    /\ l \in DOMAIN loans
    /\ users[u] = "cobrador" => loans[l].created_by = u

C2_StatusMonotonic ==
    [][ \A l \in DOMAIN loans \cap DOMAIN loans' :
          loans[l].status = "cerrado" => loans'[l].status = "cerrado" ]_vars

\* A loan is closed and its last payment came when it was closed already.
C2_Witness ==
    \E l \in DOMAIN loans :
        /\ loans[l].status = "cerrado"
        /\ Payable(loans[l]) > 0
        /\ payments_seq \in RowsOf(payments, l, PayTypes)
        /\ payments[payments_seq].amount > 0
        /\ Paid(payments, l, PayTypes) - payments[payments_seq].amount
              >= Payable(loans[l]) - Cent

\* C3: a payment form whose amount is missing, zero or negative, or whose
\* kind is none of capital / interes / cuota, changes no row of any table.
C3_InvalidPaymentRejected ==
    [][ \/ UNCHANGED <<loans, payments, payments_seq, clients, users>>
        \/ \A u \in Sessions, l \in LoanIdInputs, f \in PayForms :
              ~(~ValidForm(f) /\ NewPayment(u, l, f.amount, f.type)) ]_vars

\* An invalid payment form was submitted for a loan the user may act on.
C3_Witness ==
    /\ flash = MsgPaymentInvalid
    /\ loans # <<>>
    /\ payments # <<>>
\* C4: a payment of kind capital lowers the stored remaining by the
\* amount of the payment, not below 0; a payment of kind cuota or interes
\* leaves it as it was; nothing else changes the remaining of a loan.
C4_OnlyCapitalReducesRemaining ==
    [][ \A l \in DOMAIN loans \cap DOMAIN loans' :
          /\ \A f \in PayForms :
                \/ loans'[l].remaining =
                      IF f.type = "capital"
                      THEN Max(0, loans[l].remaining - f.amount[1])
                      ELSE loans[l].remaining
                \/ \A u \in Sessions :
                      ~(ValidForm(f) /\ Permitted(u, l)
                          /\ NewPayment(u, l, f.amount, f.type))
          /\ \/ loans'[l].remaining = loans[l].remaining
             \/ /\ payments_seq' = payments_seq + 1
                /\ payments'[payments_seq'].loan_id = l
                /\ payments'[payments_seq'].type = "capital" ]_vars

\* C5: the stored total_interest_paid of a loan is the sum of its payments
\* of kind interes; it never decreases, and it changes only with a payment
\* of kind interes on that loan.
C5_InterestPaidIsLedgerSum ==
    /\ [](\A l \in DOMAIN loans :
             loans[l].total_interest_paid = Paid(payments, l, {"interes"}))
    /\ [][ \A l \in DOMAIN loans \cap DOMAIN loans' :
             /\ loans'[l].total_interest_paid >= loans[l].total_interest_paid
             /\ \/ loans'[l].total_interest_paid = loans[l].total_interest_paid
                \/ /\ payments_seq' = payments_seq + 1
                   /\ payments'[payments_seq'].loan_id = l
                   /\ payments'[payments_seq'].type = "interes" ]_vars

\* A loan has two payments of kind interes, one of 1.00 and one of 0.005,
\* and its total_interest_paid is the 1.01 the two rows sum to.
C5_Witness ==
    \E l \in DOMAIN loans :
        /\ Cardinality(RowsOf(payments, l, {"interes"})) = 2
        /\ loans[l].total_interest_paid = One + Cent

\* C6: the stored remaining of every loan is >= 0.
C6_RemainingNonNegative ==
    \A l \in DOMAIN loans : loans[l].remaining >= 0

\* C7: on a loan whose total payable is 0, a valid payment closes the loan
\* when the remaining stored after the payment is <= 0 and otherwise leaves
\* the status as it was.
C7_ZeroPayableClosesOnRemaining ==
    [][ \A l \in DOMAIN loans \cap DOMAIN loans' :
          \/ loans'[l].status =
                IF loans'[l].remaining <= 0 THEN "cerrado" ELSE loans[l].status
          \/ \A u \in Sessions, f \in PayForms :
                ~(ValidForm(f) /\ Permitted(u, l) /\ Payable(loans[l]) = 0
                    /\ NewPayment(u, l, f.amount, f.type)) ]_vars

\* C8: a payment that brings the payments of a loan to its total payable
\* less 0.005 closes the loan; one that brings them to the total payable
\* less 0.02 leaves an active loan active.
C8_ToleranceOneCent ==
    [][ \A l \in DOMAIN loans \cap DOMAIN loans' :
          \/ /\ Paid(payments', l, PayTypes) = Payable(loans[l]) - (Cent \div 2)
                => loans'[l].status = "cerrado"
             /\ (Paid(payments', l, PayTypes) = Payable(loans[l]) - 2 * Cent
                   /\ loans[l].status = "activo")
                => loans'[l].status = "activo"
          \/ \A u \in Sessions, f \in PayForms :
                ~(ValidForm(f) /\ Permitted(u, l)
                    /\ NewPayment(u, l, f.amount, f.type)) ]_vars

\* A payment has closed a loan half a cent short of its total payable.
C8_Witness ==
    /\ flash = MsgPaymentDone
    /\ \E l \in DOMAIN loans :
          /\ loans[l].status = "cerrado"
          /\ payments_seq \in RowsOf(payments, l, PayTypes)
          /\ Paid(payments, l, PayTypes) = Payable(loans[l]) - (Cent \div 2)
          /\ Cardinality(RowsOf(payments, l, PayTypes)) = 1

\* A payment has left active a loan two cents short of its total payable.
C8_WitnessActive ==
    /\ flash = MsgPaymentDone
    /\ \E l \in DOMAIN loans :
          /\ loans[l].status = "activo"
          /\ payments_seq \in RowsOf(payments, l, PayTypes)
          /\ Paid(payments, l, PayTypes) = Payable(loans[l]) - 2 * Cent
\* The request has run to its commit.
Committed(r) == tx[r].pc = "done" /\ tx[r].loan_id # 0

\* C9: with two payment requests on a loan in flight together, a loan that
\* a committed state shows closed is closed in every later committed state.
C9_ConcurrentStatusMonotonic ==
    [][ \A l \in DOMAIN loans, r \in Requests :
          (loans[l].status = "cerrado" /\ TxCommit(r))
          => loans'[l].status = "cerrado" ]_vars

\* C10: after two concurrent payments on a loan have both committed, two
\* capital payments have lowered remaining by both amounts (not below 0)
\* and two interes payments have raised total_interest_paid by both.
C10_NoLostUpdate ==
    \A l \in DOMAIN loans :
        (/\ Committed(1) /\ Committed(2)
         /\ DOMAIN payments = {1, 2}
         /\ tx[1].loan_id = l /\ tx[2].loan_id = l
         /\ tx[1].type = tx[2].type)
        => /\ tx[1].type = "capital"
              => loans[l].remaining = Max(0, loans[l].amount - tx[1].amount - tx[2].amount)
           /\ tx[1].type = "interes"
              => loans[l].total_interest_paid = tx[1].amount + tx[2].amount

\* The payments of loan l that request r counts: the committed rows and
\* the row of its own payment.
CountedBy(r, l) == Paid(payments, l, PayTypes) + RoundTo(tx[r].amount, Cent)

\* C11: in a payment event the payment row is written first, the payments
\* of the loan, this row included, are summed next, and the status is
\* written after that, once, also when it is the status the request read.
C11_PaymentEventOrder ==
    [][ \A r \in Requests :
          /\ TxSumPayments(r)
                => /\ tx[r].inserted # None
                   /\ tx[r].w_status = None
                   /\ Payable(tx[r].loan[1]) > 0
                         => tx'[r].new_status =
                               IF CountedBy(r, tx[r].loan_id) >= Payable(tx[r].loan[1]) - Cent
                               THEN "cerrado" ELSE tx[r].loan[1].status
          /\ TxUpdateStatus(r)
                => /\ tx[r].inserted # None
                   /\ tx[r].new_status # ""
                   /\ tx[r].w_status = None
                   /\ tx'[r].w_status = Some(tx[r].new_status)
          /\ TxCommit(r) => tx[r].w_status # None ]_vars

\* A request has written the status it had read, and has not committed yet.
C11_Witness ==
    \E r \in Requests :
        /\ tx[r].pc = "commit"
        /\ tx[r].inserted # None
        /\ tx[r].w_status = Some(tx[r].loan[1].status)

\* C12: a payment row is committed only together with the update of
\* remaining / total_interest_paid and the status of its request, and a
\* request that fails before its commit leaves loans and payments alone.
C12_NoPartialApplication ==
    [][ /\ payments' # payments
           => \E r \in Requests :
                 LET t == tx[r] IN
                 /\ TxCommit(r)
                 /\ t.w_status # None
                 /\ loans'[t.loan_id].status = t.w_status[1]
                 /\ t.type = "capital"
                       => /\ t.w_remaining # None
                          /\ loans'[t.loan_id].remaining = t.w_remaining[1]
                 /\ t.type = "interes"
                       => /\ t.w_interest # None
                          /\ loans'[t.loan_id].total_interest_paid = t.w_interest[1]
        /\ loans' # loans => payments' # payments
        /\ \A r \in Requests :
              (tx[r].pc # "failed" /\ tx'[r].pc = "failed") => UNCHANGED <<loans, payments>> ]_vars

\* A request has failed after its INSERT, and no payment row is committed.
C12_Witness ==
    /\ flash = MsgServerError
    /\ payments_seq = 1
    /\ payments = <<>>
    /\ \E r \in Requests : tx[r].pc = "failed"
    /\ \A r \in Requests : tx[r].pc \in {"idle", "failed"}

\* C13: a payment event that sums the payments of a loan while the loan is
\* active with payments that reach its total payable (> 0) less a cent
\* decides to close the loan, and its commit closes it.
C13_SelfHealingClosure ==
    [][ \A r \in Requests :
          /\ ( /\ TxSumPayments(r)
               /\ loans[tx[r].loan_id].status = "activo"
               /\ Payable(loans[tx[r].loan_id]) > 0
               /\ Paid(payments, tx[r].loan_id, PayTypes)
                     >= Payable(loans[tx[r].loan_id]) - Cent )
                => tx'[r].new_status = "cerrado"
          /\ (TxCommit(r) /\ tx[r].new_status = "cerrado")
                => loans'[tx[r].loan_id].status = "cerrado" ]_vars

\* The committed loan is active with payments that reach its total payable,
\* and a request that has read it active has decided to close it.
C13_Witness ==
    \E r \in Requests :
        LET l == tx[r].loan_id IN
        /\ tx[r].pc = "status"
        /\ tx[r].new_status = "cerrado"
        /\ tx[r].loan[1].status = "activo"
        /\ loans[l].status = "activo"
        /\ Payable(loans[l]) > 0
        /\ Paid(payments, l, PayTypes) >= Payable(loans[l]) - Cent

\* C14: no request removes or changes a payment row.
C14_LedgerAppendOnly ==
    [][ \A p \in DOMAIN payments :
          p \in DOMAIN payments' /\ payments'[p] = payments[p] ]_vars

\* The loan the rendered page is about.
Viewed == loans[view[1].loan_id]

Abs(x) == IF x >= 0 THEN x ELSE -x

Min(a, b) == IF a <= b THEN a ELSE b

\* C15: on the page of a loan, per-period interest is P*r/100, total
\* interest is that times n, total payable is P + P*r*n/100 and is the total
\* the closure decision of new_payment uses; for n > 0, n installments make
\* the total payable, up to the rounding of the installment.
C15_ScheduleCorrect ==
    view # NoView =>
        LET v == view[1]
            P == Viewed.amount
            r == Viewed.rate
            n == Term(Viewed)
        IN  /\ v.per_interest * (100 * Percent) = P * r
            /\ v.total_interest = v.per_interest * n
            /\ v.total_to_pay * (100 * Percent) = P * (100 * Percent) + P * r * n
            /\ v.total_to_pay = TotalToPay(Viewed)
            /\ n > 0 => 2 * Abs(v.installment * n - v.total_to_pay) <= n

\* The page of a loan of 10.00 at 10 % over 3 periods: 3 installments of
\* 4.3333 do not make 13.00 exactly.
C15_Witness ==
    /\ view # NoView
    /\ Viewed.rate > 0
    /\ Term(Viewed) = 3
    /\ view[1].total_to_pay = 13 * One
    /\ view[1].installment * 3 # view[1].total_to_pay

\* C16: on the page of a loan whose term is 0 or missing the installment is
\* 0 and the count of paid installments is "N/A".
C16_ZeroTermGuard ==
    (view # NoView /\ Term(Viewed) = 0)
        => /\ view[1].installment = 0
           /\ view[1].cuotas_resumen = None

\* The page of a loan with term 0, with interest, payments and the estimate
\* of the arrears on it.
C16_Witness ==
    /\ view # NoView
    /\ Viewed.term_count = Some(0)
    /\ Viewed.amount > 0
    /\ view[1].overdue # None
    /\ view[1].total_to_pay > 0
    /\ payments # <<>>

\* C17: the expected periods of the estimate are the whole periods elapsed
\* since the start date (none before it), of 1, 7, 14 or 30 days by the
\* frequency, and at most the term of the loan: 0 for a loan of term 0.
C17_ExpectedPeriods ==
    (view # NoView /\ view[1].overdue # None /\ Viewed.amount > 0 /\ Viewed.term_count # None)
        => LET step_days == CASE Viewed.frequency = "diario"    -> 1
                              [] Viewed.frequency = "semanal"   -> 7
                              [] Viewed.frequency = "quincenal" -> 14
                              [] Viewed.frequency = "mensual"   -> 30
               elapsed_days == Max(0, view[1].today - Viewed.start_date)
           IN  view[1].overdue[1].expected_periods
                  = Min(elapsed_days \div step_days, Term(Viewed))

\* C18: in the estimate, the paid periods are the whole periods the interest
\* paid covers (0 when the interest of a period is 0), the overdue periods
\* are the expected ones less the paid ones, the pending interest is the
\* interest of the expected periods less the interest paid, and neither of
\* the two is below 0.
C18_Arrears ==
    (view # NoView /\ view[1].overdue # None)
        => LET o   == view[1].overdue[1]
               per == view[1].per_interest
               tip == Viewed.total_interest_paid
           IN  /\ o.paid_periods = IF per = 0 THEN 0 ELSE tip \div per
               /\ o.overdue_periods = Max(0, o.expected_periods - o.paid_periods)
               /\ o.interest_pending = Max(0, per * o.expected_periods - tip)
               /\ o.overdue_periods >= 0
               /\ o.interest_pending >= 0

\* C19: a view of a loan changes no row; and the status a payment leaves
\* is the status it would leave were the frequency and the start date of
\* the loan any other.
C19_EstimateIsDisplayOnly ==
    [][ /\ \/ UNCHANGED <<users, clients, loans, loans_seq, payments, payments_seq>>
           \/ \A u \in Sessions, l \in LoanIdInputs, today \in DayInputs :
                 ~LoanDetail(u, l, today)
        /\ \/ payments_seq' # payments_seq + 1
           \/ \A l \in DOMAIN loans \cap DOMAIN loans', f \in ValidPayForms :
                 \/ payments'[payments_seq'] # PaymentRow(l, f.amount[1], f.type)
                 \/ \A u \in Sessions : ~NewPayment(u, l, f.amount, f.type)
                 \/ \A q \in Frequencies, d \in {-5, 30} :
                       LET other == [loans[l] EXCEPT !.frequency = q, !.start_date = d]
                       IN  loans'[l].status =
                              NewStatus(other.status, TotalToPay(other),
                                        Paid(payments', l, PayTypes),
                                        ApplyPayment(other, f.amount[1], f.type).current_remaining) ]_vars

\* The page of a loan with payments shows a warning of arrears.
C19_Witness ==
    /\ view # NoView
    /\ view[1].overdue # None
    /\ view[1].overdue[1].warning
    /\ payments # <<>>
    /\ Viewed.status = "cerrado"

\* A loan form that passes the validation of new_loan with no field left out.
CompleteLoanForm(f) ==
    /\ f.client_id # None
    /\ f.amount # None
    /\ f.frequency # ""
    /\ f.start_date # None

\* C20: a loan new_loan creates is active, its remaining is its principal,
\* its total_interest_paid is 0 and it has no payments; a submission without
\* client, amount, frequency or start date creates no loan.
C20_NewLoanStartsActive ==
    [][ \/ /\ loans' = loans
           /\ loans_seq' = loans_seq
        \/ /\ loans_seq' = loans_seq + 1
           /\ DOMAIN loans' = DOMAIN loans \cup {loans_seq'}
           /\ loans'[loans_seq'].status = "activo"
           /\ loans'[loans_seq'].remaining = loans'[loans_seq'].amount
           /\ loans'[loans_seq'].total_interest_paid = 0
           /\ RowsOf(payments', loans_seq', PayTypes) = {}
           /\ \E u \in Sessions, f \in LoanForms :
                 /\ CompleteLoanForm(f)
                 /\ NewLoan(u, f.client_id, f.amount, f.rate, f.frequency,
                            f.start_date, f.term_count)
        \/ \A u \in Sessions, f \in LoanForms :
              ~NewLoan(u, f.client_id, f.amount, f.rate, f.frequency,
                       f.start_date, f.term_count) ]_vars

\* A loan of 1.00 has just been created.
C20_Witness ==
    /\ flash = MsgLoanCreated
    /\ loans # <<>>
    /\ loans[loans_seq].status = "activo"
    /\ loans[loans_seq].remaining = One

\* C21: every stored loan has a principal > 0, a rate >= 0 and a term >= 0
\* (new_loan creates no loan from a negative principal, rate or term).
C21_LoanConstraints ==
    \A l \in DOMAIN loans :
        /\ loans[l].amount > 0
        /\ loans[l].rate >= 0
        /\ Term(loans[l]) >= 0

\* The user is a collector and the loan is another user's, or nobody's.
ForeignLoan(u, l) ==
    /\ u \in DOMAIN users
    /\ users[u] = "cobrador"
    /\ l \in DOMAIN loans
    /\ loans[l].created_by # u

\* C22: a collector is shown no page of a loan whose created_by is not the
\* collector, and a payment the collector submits on such a loan adds no
\* payment row and changes no loan; the owner is the one the loan has now,
\* after whatever reassignments.
C22_CollectorIsolationLoans ==
    [][ \A u \in Sessions, l \in LoanIdInputs :
          ForeignLoan(u, l)
          => /\ \A today \in DayInputs : LoanDetail(u, l, today) => view' = NoView
             /\ \A f \in PayForms :
                   NewPayment(u, l, f.amount, f.type)
                   => UNCHANGED <<loans, payments, payments_seq>> ]_vars

\* A collector who created a loan and recorded a payment on it is refused a
\* payment after the loan was moved to another collector.
C22_Witness ==
    /\ flash = MsgNoPermission
    /\ payments # <<>>
    /\ \E l \in DOMAIN loans : loans[l].created_by = 3
    /\ 2 \in DOMAIN users

\* The user is a collector and the client is another user's, or nobody's.
ForeignClient(u, c) ==
    /\ u \in DOMAIN users
    /\ users[u] = "cobrador"
    /\ c \in DOMAIN clients
    /\ clients[c].created_by # u

\* C23: a collector is shown no page with the name and the phone of a
\* client whose created_by is not the collector, and a loan form the
\* collector submits for such a client creates no loan.
C23_CollectorIsolationClients ==
    [][ \A u \in Sessions :
          /\ \A f \in LoanForms :
                ( /\ f.client_id # None
                  /\ ForeignClient(u, f.client_id[1])
                  /\ NewLoan(u, f.client_id, f.amount, f.rate, f.frequency,
                             f.start_date, f.term_count) )
                => /\ loans' = loans
                   /\ loans_seq' = loans_seq
          /\ \A l \in LoanIdInputs, today \in DayInputs :
                ( /\ u \in DOMAIN users
                  /\ users[u] = "cobrador"
                  /\ LoanDetail(u, l, today)
                  /\ view' # NoView )
                => ~ForeignClient(u, view'[1].client_id) ]_vars

C25_ConcurrentClosure ==
    \A l \in DOMAIN loans :
        ( /\ Committed(1) /\ Committed(2)
          /\ tx[1].loan_id = l /\ tx[2].loan_id = l
          /\ DOMAIN payments = {1, 2}
          /\ Payable(loans[l]) > 0
          /\ Paid(payments, l, PayTypes) >= Payable(loans[l]) - Cent )
        => loans[l].status = "cerrado"

\* The loan row as new_loan left it.
Fresh(loan) ==
    [loan EXCEPT !.remaining = loan.amount, !.total_interest_paid = 0, !.status = "activo"]

\* The loan row after the payment events of forms f then g on a new loan.
InOrder(loan, f, g) ==
    LET first == AfterPayment(Fresh(loan), Numeric12_2(f.amount[1]), f.amount[1], f.type)
    IN  AfterPayment(first, Numeric12_2(f.amount[1]) + Numeric12_2(g.amount[1]),
                     g.amount[1], g.type)

\* C26: on a loan with a principal > 0 and a rate >= 0, the second of two
\* payment events leaves the remaining, the total_interest_paid and the
\* status that the two payments leave in the other order, and the remaining
\* is the principal less the capital payments, not below 0.
C26_OrderIndependence ==
    [][ \A l \in DOMAIN loans \cap DOMAIN loans' :
          \/ ~(loans[l].amount > 0 /\ loans[l].rate >= 0)
          \/ RowsOf(payments, l, PayTypes) # {1} \/ payments_seq # 1
          \/ payments_seq' # 2
          \/ \A u \in Sessions, g \in ValidPayForms :
                \/ ~NewPayment(u, l, g.amount, g.type)
                \/ /\ \E f \in ValidPayForms :
                         /\ payments[1] = PaymentRow(l, f.amount[1], f.type)
                         /\ [loans[l] EXCEPT !.created_by = 0]
                               = [AfterPayment(Fresh(loans[l]), Numeric12_2(f.amount[1]),
                                               f.amount[1], f.type) EXCEPT !.created_by = 0]
                         /\ InOrder(loans[l], g, f).remaining = loans'[l].remaining
                         /\ InOrder(loans[l], g, f).total_interest_paid
                               = loans'[l].total_interest_paid
                         /\ InOrder(loans[l], g, f).status = loans'[l].status
                   /\ loans'[l].remaining
                         = Max(0, loans'[l].amount - Paid(payments', l, {"capital"})) ]_vars

\* C27: a valid payment on a closed loan is recorded like any other: its row
\* is appended, a capital payment of a cent or more lowers a remaining that
\* is > 0 (the remaining becomes the remaining less the amount, not below
\* 0, to the cent the column keeps), an interes payment raises the
\* total_interest_paid by its amount, and the loan stays closed.
C27_PaymentOnClosedLoan ==
    [][ \A l \in {k \in DOMAIN loans \cap DOMAIN loans' : loans[k].status = "cerrado"} :
        \A u \in {v \in Sessions : Permitted(v, l)}, f \in {g \in PayForms : ValidForm(g)} :
          NewPayment(u, l, f.amount, f.type)
          => /\ flash' = MsgPaymentDone
             /\ payments_seq' = payments_seq + 1
             /\ DOMAIN payments' = DOMAIN payments \cup {payments_seq'}
             /\ payments'[payments_seq'].loan_id = l
             /\ payments'[payments_seq'].type = f.type
             /\ payments'[payments_seq'].amount = RoundTo(f.amount[1], Cent)
             /\ f.type = "capital"
                   => /\ loans'[l].remaining
                            = RoundTo(Max(0, loans[l].remaining - f.amount[1]), Cent)
                      /\ loans[l].remaining >= 0
                            => loans'[l].remaining <= loans[l].remaining
                      /\ (loans[l].remaining > 0 /\ f.amount[1] >= Cent)
                            => loans'[l].remaining < loans[l].remaining
             /\ f.type = "interes"
                   => /\ loans'[l].total_interest_paid
                            = RoundTo(loans[l].total_interest_paid + f.amount[1], Cent)
                      /\ loans'[l].total_interest_paid > loans[l].total_interest_paid
             /\ loans'[l].status = "cerrado" ]_vars

\* A loan closed by an installment that paid its total, with a capital
\* payment after that which has brought its remaining down to 0.
C27_Witness ==
    /\ flash = MsgPaymentDone
    /\ DOMAIN payments = {1, 2}
    /\ payments[1].type = "cuota"
    /\ payments[2].type = "capital"
    /\ \E l \in DOMAIN loans :
          /\ payments[1].loan_id = l /\ payments[2].loan_id = l
          /\ Payable(loans[l]) > 0
          /\ payments[1].amount >= Payable(loans[l]) - Cent
          /\ loans[l].amount = One
          /\ loans[l].remaining = 0
          /\ loans[l].status = "cerrado"

\* The days of a period of the loan.
PeriodDays(loan) ==
    CASE loan.frequency = "diario"    -> 1
      [] loan.frequency = "semanal"   -> 7
      [] loan.frequency = "quincenal" -> 14
      [] loan.frequency = "mensual"   -> 30

\* C28: the page of every loan with a rate > 0, closed or not, carries the
\* estimate, and the estimate counts as paid the payments of kind interes
\* only: a payment of kind cuota or capital changes nothing the estimate is
\* made of, and a loan paid and closed by installments alone has all its
\* expected periods overdue, at least one once a period has elapsed.
C28_OverdueCountsInteresOnly ==
    /\ [](view # NoView =>
            LET v       == view[1]
                l       == v.loan_id
                interes == Paid(payments, l, {"interes"})
            IN  /\ Viewed.rate > 0 => v.overdue # None
                /\ v.overdue # None =>
                     LET o   == v.overdue[1]
                         per == v.per_interest
                     IN  /\ o.paid_periods * per <= interes
                         /\ o.overdue_periods = Max(0, o.expected_periods - o.paid_periods)
                         /\ o.interest_pending = Max(0, per * o.expected_periods - interes)
                         /\ ( /\ Viewed.status = "cerrado"
                              /\ RowsOf(payments, l, {"interes"}) = {} )
                            => /\ o.overdue_periods = o.expected_periods
                               /\ v.today - Viewed.start_date >= PeriodDays(Viewed)
                                     => o.overdue_periods > 0)
    /\ [][ \A l \in DOMAIN loans \cap DOMAIN loans' :
             ( /\ payments_seq' = payments_seq + 1
               /\ payments'[payments_seq'].type \in {"cuota", "capital"} )
             => /\ loans'[l].total_interest_paid = loans[l].total_interest_paid
                /\ loans'[l].amount = loans[l].amount
                /\ loans'[l].rate = loans[l].rate
                /\ loans'[l].frequency = loans[l].frequency
                /\ loans'[l].start_date = loans[l].start_date
                /\ loans'[l].term_count = loans[l].term_count ]_vars

\* The page of a loan of 10.00 at 10 % over 3 periods, paid and closed by
\* one installment of 13.00, seen when the 3 periods have elapsed: 3 periods
\* are overdue and 3.00 of interest is pending.
C28_Witness ==
    /\ view # NoView
    /\ Viewed.status = "cerrado"
    /\ Viewed.rate = 10 * Percent
    /\ Viewed.term_count = Some(3)
    /\ RowsOf(payments, view[1].loan_id, PayTypes) = RowsOf(payments, view[1].loan_id, {"cuota"})
    /\ Paid(payments, view[1].loan_id, {"cuota"}) = 13 * One
    /\ view[1].overdue # None
    /\ view[1].overdue[1].overdue_periods = 3
    /\ view[1].overdue[1].interest_pending = 3 * One
    /\ view[1].overdue[1].warning

\* C29: in the estimate of a loan whose interest per period is > 0, there
\* are overdue periods exactly when there is pending interest.
C29_OverdueIffPending ==
    (view # NoView /\ view[1].overdue # None /\ view[1].per_interest > 0)
        => (view[1].overdue[1].overdue_periods > 0
               <=> view[1].overdue[1].interest_pending > 0)

\* The loan row without its owner.
Unowned(row) == [row EXCEPT !.created_by = NullId]

\* C30: a single client is moved only for an admin or a supervisor and only
\* to a user whose role is cobrador; the client and every loan of the client
\* then have the target as created_by; for another user, or with a target
\* that is missing or not a collector, nothing changes.  The payments and
\* every other column of the loans are as they were.
C30_MoveSingleClient ==
    [][ \A u \in MoveSessions, c \in MoveClientIds, t \in MoveTargets :
          ReassignSingleClient(u, c, t)
          => LET allowed == u \in DOMAIN users /\ users[u] \in {"admin", "supervisor"}
                 valid   == /\ t # None
                            /\ t[1] \in DOMAIN users
                            /\ users[t[1]] = "cobrador"
             IN  /\ UNCHANGED <<users, payments, payments_seq, loans_seq>>
                 /\ DOMAIN clients' = DOMAIN clients
                 /\ DOMAIN loans' = DOMAIN loans
                 /\ \A l \in DOMAIN loans : Unowned(loans'[l]) = Unowned(loans[l])
                 /\ IF allowed /\ valid
                    THEN /\ \A k \in DOMAIN clients :
                               clients'[k].created_by =
                                  IF k = c THEN t[1] ELSE clients[k].created_by
                         /\ \A l \in DOMAIN loans :
                               loans'[l].created_by =
                                  IF loans[l].client_id = c THEN t[1]
                                  ELSE loans[l].created_by
                         /\ flash' = MsgMoved
                    ELSE /\ UNCHANGED <<clients, loans>>
                         /\ flash' # MsgMoved ]_vars

\* Client 1 and its two loans, one of them closed by a payment, have been
\* moved to collector 3.
C30_Witness ==
    /\ flash = MsgMoved
    /\ clients[1].created_by = 3
    /\ loans[1].created_by = 3
    /\ loans[2].created_by = 3
    /\ loans[1].status = "cerrado"
    /\ payments # <<>>

====
